---- MODULE Spec2Model ----
(***************************************************************************)
(* Model of the alarms dispatcher (alarms-dispatcher/src/main.rs): the     *)
(* scheduler loop dispatch_alarms, the per-alarm-type loop dispatch_alarm  *)
(* and commit_tx, together with the chain and the oracle contract they     *)
(* talk to.  The process is a single async task; it is suspended at one of *)
(* three awaits (the status query, broadcast_commit, the poll sleep), and  *)
(* every action below runs the code from one await to the next.            *)
(***************************************************************************)
EXTENDS Integers, Sequences, FiniteSets, TLC

\* ---- bounds of the model ------------------------------------------------
MaxBatch == 2          \* largest configured max_alarms_group
MaxQueue == 5          \* largest number of alarms pending in the contract
MaxRounds == 2         \* poll rounds of dispatch_alarms that are explored
MaxBroadcasts == 4     \* transactions built in one process run
MaxInitialSequence == 0 \* largest account sequence fetched at start-up
MaxFee == 1            \* largest amount of config.node().fee()
MaxGasLimit == 2       \* largest config.node().gas_limit_per_alarm()
MaxCode == 2           \* largest status code of a TxResponse
MaxGasUnits == 2       \* largest gas_wanted and gas_used of a TxResponse
MaxLen == 4            \* longest spot_price string

\* ---- options -------------------------------------------------------------
None == <<>>
Some(x) == <<x>>
IsSome(o) == o # <<>>
Unwrap(o) == o[1]

Min(a, b) == IF a <= b THEN a ELSE b

VARIABLES
    pc,                 \* await the task is suspended at, or "exit"
    sequence,           \* Signer: the account sequence used for the next tx
    max_alarms,         \* config.market_price_oracle().max_alarms_group()
    node,               \* config.node(): fee() and gas_limit_per_alarm()
    response,           \* dispatch_alarm: decoded status of this iteration
    tx,                 \* commit_tx: the signed transaction of this iteration
    tx_commit_response, \* commit_tx: outcome returned by broadcast_commit
    result,             \* dispatch_alarm: decoded execute response
    error,              \* the Err that left dispatch_alarms, "none" if none
    queue,              \* contract: alarms waiting for dispatch
    chain_sequence,     \* chain: sequence it expects from the account
    rpc_outcome,        \* how the RPC awaited last was answered
    round,              \* iteration of the loop of dispatch_alarms
    pass_state,         \* current dispatch_alarm call: running, done, fatal
    tx_sequences,       \* sequence values of the transactions built so far
    outstanding,        \* transactions broadcast and not yet resolved
    pass_queue,         \* queue length when the current pass started
    pass_queries,       \* status queries issued in the current pass
    pass_broadcasts,    \* transactions broadcast in the current pass
    pass_dispatched,    \* alarms the contract released in the current pass
    pass_reported,      \* sum of the counts the engine logged in the pass
    ideal,              \* the pass met no failure, no lie and no new alarm
    faithful,           \* the pass met no lying execute response, no new alarm
    tx_result,          \* log.rs: the TxResponse handed to tx_response
    maybe_dispatch_response, \* log.rs: what tx_response returned
    logs,               \* log.rs: the events tx_response logged
    spot_price,         \* osmosis.rs: the string Ratio::deserialize reads
    ratio               \* osmosis.rs: what Ratio::deserialize returned

\* the state of log.rs and of osmosis.rs, untouched by the dispatcher
other_vars == <<tx_result, maybe_dispatch_response, logs, spot_price, ratio>>

\* the state of the dispatcher, of the chain and of the contract
engine_vars == <<pc, sequence, max_alarms, node, faithful, response,
                 tx, tx_commit_response, result,
                 error, queue, chain_sequence, rpc_outcome, round, pass_state,
                 tx_sequences, outstanding, pass_queue, pass_queries,
                 pass_broadcasts, pass_dispatched, pass_reported, ideal>>

vars == <<engine_vars, other_vars>>

QueryErrors == {"TransportError", "RemoteError", "Undecodable"}

\* deliver_tx.data: a JSON document carrying a count, or bytes that do not parse
Payloads == [valid : {TRUE}, dispatched : 0..(MaxBatch + 1)]
                \cup {[valid |-> FALSE, dispatched |-> 0]}

\* ---- pure pieces of the code ---------------------------------------------

\* Signer::tx_confirmed: the sequence for the next transaction
tx_confirmed(seq) == seq + 1

\* QueryResponse::remaining_for_dispatch of the decoded status
remaining_for_dispatch(r) == r

\* Fee::from_amount_and_gas(amount, gas_limit)
Fee_from_amount_and_gas(amount, gas_limit) ==
    [amount |-> amount, gas_limit |-> gas_limit]

\* ExecuteMsg::DispatchAlarms { max_count } committed with the signer and
\* Fee::from_amount_and_gas(config.fee(), config.gas_limit_per_alarm())
BuildTx(seq, max_count) ==
    [sequence |-> seq,
     max_count |-> max_count,
     fee |-> Fee_from_amount_and_gas(node.fee, node.gas_limit_per_alarm)]

\* serde_json_wasm::from_slice(&tx_commit_response.deliver_tx.data)
ParseExecuteResponse(data) ==
    IF data.valid THEN Some(data.dispatched) ELSE None

\* variants of the comparison of line 228
ContinuingAtLeast(dispatched_alarms, max) == dispatched_alarms >= max
ContinuingAbove(dispatched_alarms, max) == dispatched_alarms > max
ContinuingUnlessEqual(dispatched_alarms, max) == dispatched_alarms # max
ContinuingNever(dispatched_alarms, max) == FALSE

\* dispatch_alarm: `if result.dispatched_alarms() == max_alarms { continue; }`
Continuing(dispatched_alarms, max) == dispatched_alarms = max

\* the contract executes DispatchAlarms { max_count } on a queue of q alarms
ContractDispatch(q, max_count) == Min(max_count, q)

\* log.rs and osmosis.rs are not running
OtherIdle ==
    /\ tx_result = None
    /\ maybe_dispatch_response = None
    /\ logs = <<>>
    /\ spot_price = <<>>
    /\ ratio = None

\* ---- initial state: prepare_rpc is done, dispatch_alarms has issued the
\* ---- first status query ---------------------------------------------------
Init ==
    /\ pc = "querying"
    /\ sequence \in 0..MaxInitialSequence
    /\ chain_sequence = sequence
    /\ max_alarms \in 1..MaxBatch
    /\ node \in [fee : 1..MaxFee, gas_limit_per_alarm : 1..MaxGasLimit]
    /\ OtherIdle
    /\ response = None
    /\ tx = None
    /\ tx_commit_response = None
    /\ result = None
    /\ error = "none"
    /\ queue \in 0..MaxQueue
    /\ rpc_outcome = "none"
    /\ round = 1
    /\ pass_state = "running"
    /\ tx_sequences = <<>>
    /\ outstanding = {}
    /\ pass_queue = queue
    /\ pass_queries = 1
    /\ pass_broadcasts = 0
    /\ pass_dispatched = 0
    /\ pass_reported = 0
    /\ ideal = TRUE
    /\ faithful = TRUE

\* dispatch_alarms returns the Err to main, which logs it and exits
Fatal(e) ==
    /\ pc' = "exit"
    /\ error' = e
    /\ pass_state' = "fatal"
    /\ ideal' = FALSE

\* dispatch_alarm returned Ok(()): dispatch_alarms goes to sleep(poll_period)
Done ==
    /\ pc' = "sleeping"
    /\ pass_state' = "done"

\* ---- the status query -----------------------------------------------------

\* variant: the failed query is logged and the pass returns Ok(())
QueryFailSwallowed ==
    /\ pc = "querying"
    /\ \E e \in QueryErrors : rpc_outcome' = e
    /\ Done
    /\ ideal' = FALSE
    /\ UNCHANGED <<node, other_vars, faithful>>
    /\ UNCHANGED <<sequence, max_alarms, response, tx, tx_commit_response,
                   result, error, queue, chain_sequence, round, tx_sequences,
                   outstanding, pass_queue, pass_queries, pass_broadcasts,
                   pass_dispatched, pass_reported>>

\* with_grpc(..).await? or from_slice(..)? fails: lines 200-217
QueryFail ==
    /\ pc = "querying"
    /\ \E e \in QueryErrors : rpc_outcome' = e
    /\ Fatal("Query")
    /\ UNCHANGED <<node, other_vars, faithful>>
    /\ UNCHANGED <<sequence, max_alarms, response, tx, tx_commit_response,
                   result, queue, chain_sequence, round, tx_sequences,
                   outstanding, pass_queue, pass_queries, pass_broadcasts,
                   pass_dispatched, pass_reported>>

\* variant: the test of line 219 is dropped, commit_tx runs on every answer
QueryNoWorkBroadcasts ==
    /\ pc = "querying"
    /\ Len(tx_sequences) < MaxBroadcasts
    /\ \E r \in BOOLEAN :
        /\ ~remaining_for_dispatch(r)
        /\ response' = Some(r)
        /\ ideal' = (ideal /\ (r = (queue > 0)))
    /\ rpc_outcome' = "ok"
    /\ tx' = Some(BuildTx(sequence, max_alarms))
    /\ tx_sequences' = Append(tx_sequences, sequence)
    /\ outstanding' = outstanding \cup {Len(tx_sequences) + 1}
    /\ pass_broadcasts' = pass_broadcasts + 1
    /\ pc' = "broadcasting"
    /\ UNCHANGED <<node, other_vars, faithful>>
    /\ UNCHANGED <<sequence, max_alarms, tx_commit_response, result, error,
                   queue, chain_sequence, round, pass_state, pass_queue,
                   pass_queries, pass_dispatched, pass_reported>>

\* the status decodes and remaining_for_dispatch() is false: lines 219, 233
QueryNoWork ==
    /\ pc = "querying"
    /\ \E r \in BOOLEAN :
        /\ ~remaining_for_dispatch(r)
        /\ response' = Some(r)
        /\ ideal' = (ideal /\ (r = (queue > 0)))
    /\ rpc_outcome' = "ok"
    /\ Done
    /\ UNCHANGED <<node, other_vars, faithful>>
    /\ UNCHANGED <<sequence, max_alarms, tx, tx_commit_response, result,
                   error, queue, chain_sequence, round, tx_sequences,
                   outstanding, pass_queue, pass_queries, pass_broadcasts,
                   pass_dispatched, pass_reported>>

\* variant: the transaction is handed to the node without awaiting its
\* commit, and the loop goes straight to the next status query
QueryWorkRemainsNoAwait ==
    /\ pc = "querying"
    /\ Len(tx_sequences) < MaxBroadcasts
    /\ \E r \in BOOLEAN :
        /\ remaining_for_dispatch(r)
        /\ response' = Some(r)
        /\ ideal' = (ideal /\ (r = (queue > 0)))
    /\ rpc_outcome' = "ok"
    /\ tx' = Some(BuildTx(sequence, max_alarms))
    /\ tx_sequences' = Append(tx_sequences, sequence)
    /\ outstanding' = outstanding \cup {Len(tx_sequences) + 1}
    /\ pass_broadcasts' = pass_broadcasts + 1
    /\ pass_queries' = pass_queries + 1
    /\ sequence' = tx_confirmed(sequence)
    /\ pc' = "querying"
    /\ UNCHANGED <<node, other_vars, faithful>>
    /\ UNCHANGED <<max_alarms, tx_commit_response, result, error,
                   queue, chain_sequence, round, pass_state, pass_queue,
                   pass_dispatched, pass_reported>>

\* variant: ContractMsgs::commit takes the sequence and advances the signer
QueryWorkRemainsAdvances ==
    /\ pc = "querying"
    /\ Len(tx_sequences) < MaxBroadcasts
    /\ \E r \in BOOLEAN :
        /\ remaining_for_dispatch(r)
        /\ response' = Some(r)
        /\ ideal' = (ideal /\ (r = (queue > 0)))
    /\ rpc_outcome' = "ok"
    /\ tx' = Some(BuildTx(sequence, max_alarms))
    /\ tx_sequences' = Append(tx_sequences, sequence)
    /\ outstanding' = outstanding \cup {Len(tx_sequences) + 1}
    /\ pass_broadcasts' = pass_broadcasts + 1
    /\ sequence' = tx_confirmed(sequence)
    /\ pc' = "broadcasting"
    /\ UNCHANGED <<node, other_vars, faithful>>
    /\ UNCHANGED <<max_alarms, tx_commit_response, result, error,
                   queue, chain_sequence, round, pass_state, pass_queue,
                   pass_queries, pass_dispatched, pass_reported>>

\* remaining_for_dispatch() is true: commit_tx builds, signs and broadcasts
\* the transaction and awaits broadcast_commit: lines 219-220, 247-262
QueryWorkRemains ==
    /\ pc = "querying"
    /\ Len(tx_sequences) < MaxBroadcasts
    /\ \E r \in BOOLEAN :
        /\ remaining_for_dispatch(r)
        /\ response' = Some(r)
        /\ ideal' = (ideal /\ (r = (queue > 0)))
    /\ rpc_outcome' = "ok"
    /\ tx' = Some(BuildTx(sequence, max_alarms))
    /\ tx_sequences' = Append(tx_sequences, sequence)
    /\ outstanding' = outstanding \cup {Len(tx_sequences) + 1}
    /\ pass_broadcasts' = pass_broadcasts + 1
    /\ pc' = "broadcasting"
    /\ UNCHANGED <<node, other_vars, faithful>>
    /\ UNCHANGED <<sequence, max_alarms, tx_commit_response, result, error,
                   queue, chain_sequence, round, pass_state, pass_queue,
                   pass_queries, pass_dispatched, pass_reported>>

\* remaining_for_dispatch() is true and to_vec(..)? or commit(..)? fails:
\* lines 247-257
BuildFail ==
    /\ pc = "querying"
    /\ \E r \in BOOLEAN :
        /\ remaining_for_dispatch(r)
        /\ response' = Some(r)
    /\ rpc_outcome' = "ok"
    /\ Fatal("BuildTx")
    /\ UNCHANGED <<node, other_vars, faithful>>
    /\ UNCHANGED <<sequence, max_alarms, tx, tx_commit_response, result,
                   queue, chain_sequence, round, tx_sequences, outstanding,
                   pass_queue, pass_queries, pass_broadcasts,
                   pass_dispatched, pass_reported>>

\* ---- broadcast_commit -----------------------------------------------------

\* variant: the failed broadcast is logged and retried in the next round
BroadcastFailRetried ==
    /\ pc = "broadcasting"
    /\ rpc_outcome' = "TransportError"
    /\ Done
    /\ ideal' = FALSE
    /\ outstanding' = {}
    /\ UNCHANGED <<node, other_vars, faithful>>
    /\ UNCHANGED <<sequence, max_alarms, response, tx, tx_commit_response,
                   result, error, queue, chain_sequence, round, tx_sequences,
                   pass_queue, pass_queries, pass_broadcasts,
                   pass_dispatched, pass_reported>>

\* variant: signer.tx_confirmed() is called before the result of the
\* broadcast is examined
BroadcastFailConfirmsFirst ==
    /\ pc = "broadcasting"
    /\ rpc_outcome' = "TransportError"
    /\ sequence' = tx_confirmed(sequence)
    /\ Fatal("BroadcastTx")
    /\ UNCHANGED <<node, other_vars, faithful>>
    /\ UNCHANGED <<max_alarms, response, tx, tx_commit_response,
                   result, queue, chain_sequence, round, tx_sequences,
                   outstanding, pass_queue, pass_queries, pass_broadcasts,
                   pass_dispatched, pass_reported>>

\* the JSON-RPC call fails: `.map_err(Error::BroadcastTx)?`, lines 259-265
BroadcastFail ==
    /\ pc = "broadcasting"
    /\ rpc_outcome' = "TransportError"
    /\ Fatal("BroadcastTx")
    /\ UNCHANGED <<node, other_vars, faithful>>
    /\ UNCHANGED <<sequence, max_alarms, response, tx, tx_commit_response,
                   result, queue, chain_sequence, round, tx_sequences,
                   outstanding, pass_queue, pass_queries, pass_broadcasts,
                   pass_dispatched, pass_reported>>

\* the transaction is included in a block and executed with status 0: the
\* contract releases up to max_count alarms and answers with a payload
BroadcastCommitted ==
    /\ pc = "broadcasting"
    /\ \E data \in Payloads :
        LET done == ContractDispatch(queue, Unwrap(tx).max_count) IN
        /\ tx_commit_response' = Some([code |-> 0, data |-> data])
        /\ queue' = queue - done
        /\ pass_dispatched' = pass_dispatched + done
        /\ ideal' = (ideal /\ data.valid /\ data.dispatched = done)
        /\ faithful' = (faithful /\ (data.valid => data.dispatched = done))
    /\ chain_sequence' = chain_sequence + 1
    /\ rpc_outcome' = "ok"
    /\ outstanding' = {}
    /\ pc' = "committed"
    /\ UNCHANGED <<node, other_vars>>
    /\ UNCHANGED <<sequence, max_alarms, response, tx, result, error, round,
                   pass_state, tx_sequences, pass_queue, pass_queries,
                   pass_broadcasts, pass_reported>>

\* the transaction is included in a block and its execution fails: the status
\* code is not 0, the state of the contract is rolled back, the data is empty
BroadcastRejected ==
    /\ pc = "broadcasting"
    /\ tx_commit_response' =
            Some([code |-> 1, data |-> [valid |-> FALSE, dispatched |-> 0]])
    /\ chain_sequence' = chain_sequence + 1
    /\ rpc_outcome' = "ok"
    /\ outstanding' = {}
    /\ ideal' = FALSE
    /\ pc' = "committed"
    /\ UNCHANGED <<node, other_vars, faithful>>
    /\ UNCHANGED <<sequence, max_alarms, response, tx, result, error, queue,
                   round, pass_state, tx_sequences, pass_queue, pass_queries,
                   pass_broadcasts, pass_dispatched, pass_reported>>

\* ---- the rest of commit_tx and of the iteration of dispatch_alarm -------

\* variant: the parse error is logged and commit_tx returns a count of 0
\* from the error branch, which does not reach signer.tx_confirmed()
CommitTxParseFailRecovers ==
    /\ pc = "committed"
    /\ ~IsSome(ParseExecuteResponse(Unwrap(tx_commit_response).data))
    /\ result' = Some(0)
    /\ Done
    /\ ideal' = FALSE
    /\ UNCHANGED <<node, other_vars, faithful>>
    /\ UNCHANGED <<sequence, max_alarms, response, tx, tx_commit_response,
                   error, queue, chain_sequence, rpc_outcome, round,
                   tx_sequences, outstanding, pass_queue, pass_queries,
                   pass_broadcasts, pass_dispatched, pass_reported>>

\* from_slice(&tx_commit_response.deliver_tx.data)? fails: lines 267-270
CommitTxParseFail ==
    /\ pc = "committed"
    /\ ~IsSome(ParseExecuteResponse(Unwrap(tx_commit_response).data))
    /\ Fatal("ParseResponse")
    /\ UNCHANGED <<node, other_vars, faithful>>
    /\ UNCHANGED <<sequence, max_alarms, response, tx, tx_commit_response,
                   result, queue, chain_sequence, rpc_outcome, round,
                   tx_sequences, outstanding, pass_queue, pass_queries,
                   pass_broadcasts, pass_dispatched, pass_reported>>

\* variant: commit_tx returns Ok(response) without signer.tx_confirmed()
CommitTxOkNoConfirm ==
    /\ pc = "committed"
    /\ LET parsed == ParseExecuteResponse(Unwrap(tx_commit_response).data) IN
        /\ IsSome(parsed)
        /\ result' = parsed
        /\ pass_reported' = pass_reported + Unwrap(parsed)
        /\ IF Continuing(Unwrap(parsed), max_alarms)
              THEN /\ pc' = "querying"
                   /\ pass_queries' = pass_queries + 1
                   /\ UNCHANGED pass_state
              ELSE /\ Done
                   /\ UNCHANGED pass_queries
    /\ UNCHANGED <<node, other_vars, faithful>>
    /\ UNCHANGED <<sequence, max_alarms, response, tx, tx_commit_response,
                   error, queue, chain_sequence, rpc_outcome, round,
                   tx_sequences, outstanding, pass_queue, pass_broadcasts,
                   pass_dispatched, ideal>>

\* the payload parses: signer.tx_confirmed(), commit_tx returns Ok(response),
\* dispatch_alarm logs the count and continues or returns: lines 220-233,
\* 267-274
CommitTxOk ==
    /\ pc = "committed"
    /\ LET parsed == ParseExecuteResponse(Unwrap(tx_commit_response).data) IN
        /\ IsSome(parsed)
        /\ sequence' = tx_confirmed(sequence)
        /\ result' = parsed
        /\ pass_reported' = pass_reported + Unwrap(parsed)
        /\ IF Continuing(Unwrap(parsed), max_alarms)
              THEN /\ pc' = "querying"
                   /\ pass_queries' = pass_queries + 1
                   /\ UNCHANGED pass_state
              ELSE /\ Done
                   /\ UNCHANGED pass_queries
    /\ UNCHANGED <<node, other_vars, faithful>>
    /\ UNCHANGED <<max_alarms, response, tx, tx_commit_response, error,
                   queue, chain_sequence, rpc_outcome, round, tx_sequences,
                   outstanding, pass_queue, pass_broadcasts, pass_dispatched,
                   ideal>>

\* ---- the scheduler --------------------------------------------------------

\* sleep(poll_period) elapses: the loop of dispatch_alarms calls
\* dispatch_alarm again, which issues its first query: lines 154, 168-182
Sleep ==
    /\ pc = "sleeping"
    /\ round < MaxRounds
    /\ round' = round + 1
    /\ pc' = "querying"
    /\ pass_state' = "running"
    /\ pass_queue' = queue
    /\ pass_queries' = 1
    /\ pass_broadcasts' = 0
    /\ pass_dispatched' = 0
    /\ pass_reported' = 0
    /\ ideal' = TRUE
    /\ UNCHANGED <<node, other_vars>>
    /\ faithful' = TRUE
    /\ UNCHANGED <<sequence, max_alarms, response, tx, tx_commit_response,
                   result, error, queue, chain_sequence, rpc_outcome,
                   tx_sequences, outstanding>>

\* ---- the environment ------------------------------------------------------

\* somebody registers one more alarm with the contract
AddAlarm ==
    /\ pc # "exit"
    /\ queue < MaxQueue
    /\ queue' = queue + 1
    /\ ideal' = FALSE
    /\ UNCHANGED <<node, other_vars>>
    /\ faithful' = FALSE
    /\ UNCHANGED <<pc, sequence, max_alarms, response, tx, tx_commit_response,
                   result, error, chain_sequence, rpc_outcome, round,
                   pass_state, tx_sequences, outstanding, pass_queue,
                   pass_queries, pass_broadcasts, pass_dispatched,
                   pass_reported>>

Next ==
    \/ QueryFail
    \/ QueryNoWork
    \/ QueryWorkRemains
    \/ BuildFail
    \/ BroadcastFail
    \/ BroadcastCommitted
    \/ BroadcastRejected
    \/ CommitTxParseFail
    \/ CommitTxOk
    \/ Sleep
    \/ AddAlarm

Spec == Init /\ [][Next]_vars

\* ---- log.rs: tx_response ---------------------------------------------------

\* the dispatcher is not running
EngineIdle ==
    /\ pc = "idle"
    /\ sequence = 0
    /\ chain_sequence = 0
    /\ max_alarms = 1
    /\ node = [fee |-> 1, gas_limit_per_alarm |-> 1]
    /\ response = None
    /\ tx = None
    /\ tx_commit_response = None
    /\ result = None
    /\ error = "none"
    /\ queue = 0
    /\ rpc_outcome = "none"
    /\ round = 0
    /\ pass_state = "done"
    /\ tx_sequences = <<>>
    /\ outstanding = {}
    /\ pass_queue = 0
    /\ pass_queries = 0
    /\ pass_broadcasts = 0
    /\ pass_dispatched = 0
    /\ pass_reported = 0
    /\ ideal = FALSE
    /\ faithful = FALSE

\* TxResponse::data: bytes that are no envelope, an envelope around bytes that
\* are no JSON of a DispatchResponse, or an envelope around such a JSON
TxData ==
    {[envelope_ok |-> FALSE, json_ok |-> FALSE, dispatched |-> 0],
     [envelope_ok |-> TRUE, json_ok |-> FALSE, dispatched |-> 0]}
    \cup [envelope_ok : {TRUE}, json_ok : {TRUE},
          dispatched : 0..(MaxBatch + 1)]

TxResponses ==
    [code : 0..MaxCode, data : TxData,
     gas_wanted : 0..MaxGasUnits, gas_used : 0..MaxGasUnits]

Log(level, message, value) ==
    [level |-> level, message |-> message, value |-> value]

\* tx_result.code.is_ok()
is_ok(code) == code = 0

\* broadcast::log::on_error(code, raw_log, info): reports a failed transaction
on_error(code) ==
    IF is_ok(code) THEN <<>> ELSE <<Log("error", "Transaction failed", code)>>

\* decode::tx_response_data(tx_result): the bytes inside the envelope
tx_response_data(tx_res) ==
    IF tx_res.data.envelope_ok
        THEN Some([json_ok |-> tx_res.data.json_ok,
                   dispatched |-> tx_res.data.dispatched])
        ELSE None

\* deserialize_and_log: from_slice, inspect, inspect_err, ok: lines 65-85
deserialize_and_log(tx_res, dispatch_response) ==
    IF dispatch_response.json_ok
        THEN [value |-> Some(dispatch_response.dispatched),
              logs |-> <<Log("info", "Dispatched alarms",
                             dispatch_response.dispatched)>>]
        ELSE [value |-> None,
              logs |-> <<Log("error", "Failed to deserialize JSON", 0)>>]

\* the two info_logs calls of tx_response_inner: lines 29-33, 57-60
HeaderLogs ==
    <<Log("info", "Contract type", 0), Log("info", "Contract", 0),
      Log("info", "Hash", 0)>>

GasLogs(tx_res) ==
    <<Log("info", "Gas limit for transacion", tx_res.gas_wanted),
      Log("info", "Gas used", tx_res.gas_used)>>

\* variant: the payload is decoded whatever the status code is
tx_response_inner_any_code(tx_res) ==
    LET decoded == tx_response_data(tx_res)
        inner == IF IsSome(decoded)
                    THEN deserialize_and_log(tx_res, Unwrap(decoded))
                    ELSE [value |-> None,
                          logs |-> <<Log("error",
                                         "Failed to decode Protobuf", 0)>>]
    IN  [value |-> inner.value,
         logs |-> HeaderLogs \o on_error(tx_res.code) \o inner.logs
                    \o GasLogs(tx_res)]

\* tx_response_inner: lines 23-63
tx_response_inner(tx_res) ==
    LET decoded == tx_response_data(tx_res)
        inner == IF ~is_ok(tx_res.code)
                    THEN [value |-> None, logs |-> <<>>]
                 ELSE IF IsSome(decoded)
                    THEN deserialize_and_log(tx_res, Unwrap(decoded))
                 ELSE [value |-> None,
                       logs |-> <<Log("error",
                                      "Failed to decode Protobuf", 0)>>]
    IN  [value |-> inner.value,
         logs |-> HeaderLogs \o on_error(tx_res.code) \o inner.logs
                    \o GasLogs(tx_res)]

\* tx_response: lines 12-21
tx_response(tx_res) == tx_response_inner(tx_res)

InitDecoder ==
    /\ EngineIdle
    /\ \E r \in TxResponses : tx_result = Some(r)
    /\ maybe_dispatch_response = None
    /\ logs = <<>>
    /\ spot_price = <<>>
    /\ ratio = None

\* a caller hands the TxResponse to tx_response
TxResponse ==
    /\ IsSome(tx_result)
    /\ logs = <<>>
    /\ LET returned == tx_response(Unwrap(tx_result)) IN
        /\ maybe_dispatch_response' = returned.value
        /\ logs' = returned.logs
    /\ UNCHANGED <<engine_vars, tx_result, spot_price, ratio>>

NextDecoder == TxResponse

SpecDecoder == InitDecoder /\ [][NextDecoder]_vars

\* ---- osmosis.rs: Ratio::deserialize ---------------------------------------

DigitChars == <<"0", "1", "2", "3", "4", "5", "6", "7", "8", "9">>
Chars == {DigitChars[i] : i \in 1..10} \cup {"."}

IsDigit(c) == \E i \in 1..10 : DigitChars[i] = c
DigitValue(c) == (CHOOSE i \in 1..10 : DigitChars[i] = c) - 1

\* str::find(c): byte index of the first match, counted from 0
find(s, c) ==
    IF \E i \in 1..Len(s) : s[i] = c
        THEN Some((CHOOSE i \in 1..Len(s) :
                    s[i] = c /\ \A j \in 1..(i - 1) : s[j] # c) - 1)
        ELSE None

\* str::trim_end_matches(c)
RECURSIVE trim_end_matches(_, _)
trim_end_matches(s, c) ==
    IF s # <<>> /\ s[Len(s)] = c
        THEN trim_end_matches(SubSeq(s, 1, Len(s) - 1), c)
        ELSE s

\* str::trim_start_matches(c)
RECURSIVE trim_start_matches(_, _)
trim_start_matches(s, c) ==
    IF s # <<>> /\ s[1] = c THEN trim_start_matches(Tail(s), c) ELSE s

\* String::remove(idx), idx counted from 0 and smaller than the length
remove(s, idx) ==
    [i \in 1..(Len(s) - 1) |-> IF i <= idx THEN s[i] ELSE s[i + 1]]

\* str::parse::<u128>() of at most MaxLen digits: digit by digit from the
\* left; the empty string and a string with a non-digit are errors
RECURSIVE parse_digits(_, _)
parse_digits(s, acc) ==
    IF s = <<>> THEN acc
    ELSE parse_digits(Tail(s), acc * 10 + DigitValue(s[1]))

parse(s) ==
    IF s = <<>> \/ \E i \in 1..Len(s) : ~IsDigit(s[i])
        THEN None
        ELSE Some(parse_digits(s, 0))

\* u128::checked_pow: None when the power does not fit 128 bits
checked_pow(base, exp) ==
    IF base = 10 /\ exp > 38 THEN None ELSE Some(base ^ exp)

\* variant: the digits are parsed without trim_start_matches('0')
NumeratorUntrimmed(digits) == parse(digits)

\* `spot_price.trim_start_matches('0').parse()`: lines 49-52
Numerator(digits) == parse(trim_start_matches(digits, "0"))

\* Ratio::deserialize: lines 25-64
Ratio_deserialize(string) ==
    LET found == find(string, ".")
        trimmed == IF IsSome(found)
                        THEN trim_end_matches(string, "0") ELSE string
        point == IF IsSome(found) THEN Unwrap(found) ELSE Len(string)
        removable == ~IsSome(found) \/ point < Len(trimmed)
        digits == IF IsSome(found) /\ removable
                        THEN remove(trimmed, point) ELSE trimmed
        numerator == Numerator(digits)
        denominator == IF Len(digits) >= point
                            THEN checked_pow(10, Len(digits) - point)
                            ELSE None
    IN  IF ~removable
            THEN [kind |-> "panic", numerator |-> 0, denominator |-> 0]
        ELSE IF ~IsSome(numerator)
            THEN [kind |-> "err", numerator |-> 0, denominator |-> 0]
        ELSE IF Len(digits) < point
            THEN [kind |-> "panic", numerator |-> 0, denominator |-> 0]
        ELSE IF ~IsSome(denominator)
            THEN [kind |-> "err", numerator |-> 0, denominator |-> 0]
        ELSE [kind |-> "ok", numerator |-> Unwrap(numerator),
              denominator |-> Unwrap(denominator)]

\* Price::new(symbol1, base, symbol2, quote): base/mod.rs lines 23-45
Price_new(symbol1, base, symbol2, quote) ==
    [amount |-> [amount |-> base, symbol |-> symbol1],
     amount_quote |-> [amount |-> quote, symbol |-> symbol2]]

\* Price::is_zero: base/mod.rs lines 47-50
is_zero(price) == price.amount.amount = 0 \/ price.amount_quote.amount = 0

\* decimal strings: digits with at most one '.'
DecimalStrings ==
    {s \in UNION {[1..n -> Chars] : n \in 0..MaxLen} :
        Cardinality({i \in 1..Len(s) : s[i] = "."}) <= 1}

InitRatio ==
    /\ EngineIdle
    /\ tx_result = None
    /\ maybe_dispatch_response = None
    /\ logs = <<>>
    /\ spot_price \in DecimalStrings
    /\ ratio = None

\* serde hands the spot_price string of an AssetPrice to Ratio::deserialize
Deserialize ==
    /\ ratio = None
    /\ ratio' = Some(Ratio_deserialize(spot_price))
    /\ UNCHANGED <<engine_vars, tx_result, maybe_dispatch_response, logs,
                   spot_price>>

NextRatio == Deserialize

SpecRatio == InitRatio /\ [][NextRatio]_vars

\* ---- properties -----------------------------------------------------------

\* the outcome commit_tx is looking at while the task is at "committed"
Outcome == Unwrap(tx_commit_response)

\* the task runs the code that follows the return of broadcast_commit
AfterCommitStep == pc = "committed" /\ pc' # pc

\* C1: every broadcast-and-confirm call that returns a transaction outcome is
\* followed by an advance of the signer's sequence by exactly 1, whatever the
\* status code and whether or not the payload decodes.
C1_SequenceAdvancesOnEveryOutcome ==
    [][AfterCommitStep => sequence' = sequence + 1]_vars

\* C2: a transport failure of broadcast_commit aborts the pass with a fatal
\* error, leaves the sequence unchanged, decodes nothing, and is followed by
\* no further query or broadcast.
C2_BroadcastTransportFailureAborts ==
    [][/\ (pc = "broadcasting" /\ rpc_outcome' = "TransportError") =>
            /\ pc' = "exit"
            /\ pass_state' = "fatal"
            /\ error' = "BroadcastTx"
            /\ sequence' = sequence
            /\ tx_commit_response' = tx_commit_response
            /\ result' = result
            /\ pass_queries' = pass_queries
            /\ pass_broadcasts' = pass_broadcasts
       /\ (error = "BroadcastTx") =>
            /\ pc' = "exit"
            /\ UNCHANGED <<sequence, tx_commit_response, result,
                           pass_queries, pass_broadcasts, tx_sequences>>
      ]_vars

C2_Witness ==
    /\ pc = "exit"
    /\ error = "BroadcastTx"
    /\ rpc_outcome = "TransportError"
    /\ IsSome(tx)
    /\ Unwrap(tx).sequence = sequence

\* C3: a transaction is built and broadcast only when the query of the same
\* iteration answered "work remains"; on the answer false the iteration
\* broadcasts nothing, keeps the sequence and the pass is Done.
C3_BroadcastOnlyWhenWorkRemains ==
    /\ [](pc \in {"broadcasting", "committed"} => response = Some(TRUE))
    /\ [][/\ tx_sequences' # tx_sequences =>
                pc = "querying" /\ response' = Some(TRUE)
          /\ (pc = "querying" /\ pc' # pc /\ rpc_outcome' = "ok"
                /\ response' = Some(FALSE)) =>
                /\ pc' = "sleeping"
                /\ pass_state' = "done"
                /\ sequence' = sequence
                /\ pass_broadcasts' = pass_broadcasts
                /\ tx_sequences' = tx_sequences
                /\ outstanding' = outstanding
         ]_vars

C3_Witness ==
    /\ pc = "sleeping"
    /\ pass_state = "done"
    /\ response = Some(FALSE)
    /\ pass_broadcasts = 0
    /\ queue > 0

\* C4: after a payload that decodes, the engine goes back to Querying exactly
\* when the decoded count equals max_alarms; otherwise the pass is Done.
C4_ContinueIffFullBatch ==
    [][(AfterCommitStep /\ Outcome.data.valid) =>
            /\ (pc' = "querying") <=> (Outcome.data.dispatched = max_alarms)
            /\ pc' # "querying" => (pc' = "sleeping" /\ pass_state' = "done")
            /\ result' = Some(Outcome.data.dispatched)
      ]_vars

C4_Witness ==
    /\ pc = "sleeping"
    /\ pass_state = "done"
    /\ pass_broadcasts = 2
    /\ result = Some(max_alarms + 1)
    /\ pass_reported = 2 * max_alarms + 1

\* C5: a status-success outcome whose payload does not decode is taken as a
\* count of 0: the pass is Done without a fatal error and the sequence has
\* advanced by 1.
C5_MalformedPayloadIsZeroAndDone ==
    [][(AfterCommitStep /\ Outcome.code = 0 /\ ~Outcome.data.valid) =>
            /\ pc' = "sleeping"
            /\ pass_state' = "done"
            /\ error' = "none"
            /\ pass_reported' = pass_reported
            /\ sequence' = sequence + 1
      ]_vars

\* C6: an outcome with a non-zero status code is recoverable: no fatal error,
\* the sequence advances and the pass is Done.
C6_OnChainFailureIsRecoverable ==
    [][(AfterCommitStep /\ Outcome.code # 0) =>
            /\ error' = "none"
            /\ pass_state' = "done"
            /\ sequence' = sequence + 1
      ]_vars

\* C7: with a truthful contract that never fails, after k resolved broadcasts
\* the pass has dispatched min(N, k*B) alarms, and a pass that is Done has
\* emptied the queue.
C7_DispatchesMinOfQueueAndBatches ==
    /\ (ideal /\ pc # "broadcasting") =>
            pass_dispatched = Min(pass_queue, pass_broadcasts * max_alarms)
    /\ (ideal /\ pc \notin {"broadcasting", "committed"}) =>
            pass_reported = pass_dispatched
    /\ (ideal /\ pass_state = "done") =>
            (queue = 0 /\ pass_dispatched = pass_queue)

C7_Witness ==
    /\ ideal
    /\ pass_state = "done"
    /\ max_alarms = 2
    /\ pass_queue = 5
    /\ pass_broadcasts = 3
    /\ pass_reported = 5
    /\ queue = 0

\* C8: a failed status query aborts the pass with a fatal error before any
\* transaction is built or broadcast, and the sequence is unchanged.
C8_QueryFailureAborts ==
    [][(pc = "querying" /\ rpc_outcome' \in QueryErrors) =>
            /\ pc' = "exit"
            /\ pass_state' = "fatal"
            /\ error' = "Query"
            /\ sequence' = sequence
            /\ tx' = tx
            /\ tx_sequences' = tx_sequences
            /\ pass_broadcasts' = pass_broadcasts
            /\ outstanding' = outstanding
      ]_vars

C8_Witness ==
    /\ pc = "exit"
    /\ error = "Query"
    /\ rpc_outcome \in QueryErrors
    /\ pass_broadcasts = 1
    /\ sequence = chain_sequence

\* C9: an on-chain execution failure or a decode failure does not stop the
\* scheduler: the process goes on to sleep the poll period.
C9_FailureDoesNotStopScheduler ==
    [][(AfterCommitStep /\ (Outcome.code # 0 \/ ~Outcome.data.valid)) =>
            pc' = "sleeping"
      ]_vars

\* C10: no two transactions of a run are built from the same sequence value,
\* and at most one transaction is broadcast and unresolved at any time.
C10_DistinctSequencesOneOutstanding ==
    /\ \A i, j \in DOMAIN tx_sequences :
            i # j => tx_sequences[i] # tx_sequences[j]
    /\ Cardinality(outstanding) <= 1

C10_Witness ==
    /\ pc = "broadcasting"
    /\ Len(tx_sequences) = 3
    /\ outstanding = {3}
    /\ round = 2

\* C11: every transaction the engine builds carries a fee amount and a gas
\* limit both equal to gas_limit_per_alarm x max_count.
C11_FeeScalesWithBatch ==
    IsSome(tx) =>
        /\ Unwrap(tx).fee.amount =
                node.gas_limit_per_alarm * Unwrap(tx).max_count
        /\ Unwrap(tx).fee.gas_limit =
                node.gas_limit_per_alarm * Unwrap(tx).max_count

\* C12: the first fatal error ends the process with a failure result: no
\* query, broadcast, sleep or retry follows it; and the loop of
\* dispatch_alarms returns only with such an error.
C12_FirstFatalErrorTerminates ==
    /\ [](rpc_outcome \in QueryErrors => (pc = "exit" /\ error # "none"))
    /\ []((pc = "exit") <=> (error # "none"))
    /\ []((pc = "exit") <=> (pass_state = "fatal"))
    /\ [][error # "none" =>
            /\ pc' = "exit"
            /\ UNCHANGED <<error, round, sequence, pass_queries,
                           pass_broadcasts, tx_sequences, outstanding>>
         ]_vars

C12_Witness ==
    /\ pc = "exit"
    /\ error = "BroadcastTx"
    /\ round = 2
    /\ pass_queries = 2
    /\ pass_broadcasts = 2

\* C13: the scheduler is strictly sequential: a round is one pass driven to
\* Done, then the sleep, then the next round; no transaction is unresolved
\* while a query is awaited or while the task sleeps.
C13_SchedulerIsSequential ==
    /\ [](pc \in {"querying", "committed", "sleeping"} => outstanding = {})
    /\ []((pc = "sleeping") <=> (pass_state = "done"))
    /\ [](pc \in {"querying", "broadcasting", "committed"} =>
            pass_state = "running")
    /\ [][/\ round' # round =>
                /\ pc = "sleeping"
                /\ pc' = "querying"
                /\ round' = round + 1
                /\ pass_queries' = 1
                /\ pass_broadcasts' = 0
          /\ (pc = "sleeping" /\ pc' # pc) => round' = round + 1
          /\ (pc # "sleeping" /\ pc' = "sleeping") =>
                pc \in {"querying", "committed"}
         ]_vars

C13_Witness ==
    /\ round = 2
    /\ pc = "sleeping"
    /\ pass_broadcasts = 1
    /\ pass_queries = 1
    /\ Len(tx_sequences) = 3

\* C14: a pass in which no alarm is added and every decoded execute response
\* reports what the contract released issues at most N/B + 1 broadcasts and
\* at most one query more than broadcasts: it cannot loop against the batch
\* limit.
C14_PassIsBounded ==
    faithful =>
        /\ pass_broadcasts > 0 =>
                (pass_broadcasts - 1) * max_alarms <= pass_queue
        /\ (pc = "querying" /\ pass_state = "running") =>
                pass_broadcasts * max_alarms <= pass_queue
        /\ pass_queries <= pass_broadcasts + 1

C14_Witness ==
    /\ faithful
    /\ ~ideal
    /\ pass_state = "done"
    /\ max_alarms = 2
    /\ pass_queue = 4
    /\ pass_broadcasts = 3
    /\ pass_queries = 3
    /\ result = Some(0)

\* C15: with a truthful contract and a queue of N > 0 alarms, N a multiple of
\* B, a pass that is Done issued N/B broadcasts and N/B + 1 queries.
C15_ExactMultipleCostsOneQuery ==
    (/\ ideal
     /\ pass_state = "done"
     /\ pass_queue > 0
     /\ pass_queue % max_alarms = 0) =>
        /\ pass_broadcasts * max_alarms = pass_queue
        /\ pass_queries = pass_broadcasts + 1
        /\ response = Some(FALSE)

C15_Witness ==
    /\ ideal
    /\ pass_state = "done"
    /\ max_alarms = 2
    /\ pass_queue = 4
    /\ pass_broadcasts = 2
    /\ pass_queries = 3

\* C17: the sequence changes only in the step that follows a committed and
\* decoded transaction, by +1; the query, the decision, the build, the
\* broadcast and the sleep leave it unchanged, and it never decreases.
C17_SequenceChangesOnlyAfterCommit ==
    [][/\ sequence' >= sequence
       /\ sequence' # sequence =>
            /\ AfterCommitStep
            /\ Outcome.data.valid
            /\ sequence' = sequence + 1
       /\ pc \in {"querying", "broadcasting", "sleeping", "exit"} =>
            sequence' = sequence
      ]_vars

C17_Witness ==
    /\ Len(tx_sequences) = 2
    /\ sequence = tx_sequences[1] + 2
    /\ pc = "sleeping"
    /\ round = 2

\* C18: a decoded count the engine accepts lies between 0 and the batch size
\* requested in the transaction.
C18_AcceptedCountWithinBatch ==
    IsSome(result) => (0 <= Unwrap(result) /\ Unwrap(result) <= max_alarms)

\* C19: whenever a transaction is built, and while it is in flight, the
\* sequence of the signer is the sequence the chain expects of the account.
C19_LocalSequenceMatchesChain ==
    /\ [][tx_sequences' # tx_sequences =>
            /\ sequence = chain_sequence
            /\ Unwrap(tx').sequence = chain_sequence
         ]_vars
    /\ [](pc \in {"querying", "broadcasting", "sleeping"} =>
            sequence = chain_sequence)

C19_Witness ==
    /\ pc = "broadcasting"
    /\ Len(tx_sequences) = 2
    /\ Unwrap(tx).sequence = chain_sequence
    /\ chain_sequence = tx_sequences[1] + 1

\* C16: tx_response returns a count exactly when the status code is success,
\* the envelope unwraps and the JSON deserializes, and then it is the count
\* of the payload; in every case it logs gas wanted and gas used.
C16_DecoderReturnsCountIffAllSucceed ==
    (IsSome(tx_result) /\ logs # <<>>) =>
        LET r == Unwrap(tx_result) IN
        /\ IsSome(maybe_dispatch_response) <=>
                (r.code = 0 /\ r.data.envelope_ok /\ r.data.json_ok)
        /\ IsSome(maybe_dispatch_response) =>
                Unwrap(maybe_dispatch_response) = r.data.dispatched
        /\ Len(logs) >= 2
        /\ logs[Len(logs) - 1] =
                Log("info", "Gas limit for transacion", r.gas_wanted)
        /\ logs[Len(logs)] = Log("info", "Gas used", r.gas_used)

C16_Witness ==
    /\ IsSome(tx_result)
    /\ Unwrap(tx_result).code = 0
    /\ Unwrap(tx_result).data.envelope_ok
    /\ ~Unwrap(tx_result).data.json_ok
    /\ Unwrap(tx_result).gas_used = 2
    /\ maybe_dispatch_response = None
    /\ Len(logs) = 6

\* the decimal number a string denotes, read independently of the code:
\* its digits before and after the point and their place values
PointPosition(s) ==
    IF \E i \in 1..Len(s) : s[i] = "."
        THEN CHOOSE i \in 1..Len(s) : s[i] = "."
        ELSE Len(s) + 1
IntegerPart(s) == SubSeq(s, 1, PointPosition(s) - 1)
FractionPart(s) == SubSeq(s, PointPosition(s) + 1, Len(s))
RECURSIVE PlaceValue(_)
PlaceValue(d) ==
    IF d = <<>> THEN 0
    ELSE DigitValue(d[Len(d)]) + 10 * PlaceValue(SubSeq(d, 1, Len(d) - 1))
SignificantFractionDigits(s) ==
    LET f == FractionPart(s)
        nonzero == {i \in 1..Len(f) : f[i] # "0"}
    IN  IF nonzero = {} THEN 0
        ELSE CHOOSE i \in nonzero : \A j \in nonzero : j <= i

\* C20: a decimal string deserializes to numerator/denominator equal to its
\* value, the denominator being 10 to the number of fraction digits left
\* after the trailing zeros are removed; a string of value zero is an error,
\* so no deserialized Ratio has a zero numerator or denominator.
C20_RatioIsTheDecimalValue ==
    IsSome(ratio) =>
        LET r == Unwrap(ratio)
            value == PlaceValue(IntegerPart(spot_price)
                                    \o FractionPart(spot_price))
            scale == 10 ^ Len(FractionPart(spot_price))
        IN  /\ r.kind # "panic"
            /\ (value = 0) <=> (r.kind = "err")
            /\ r.kind = "ok" =>
                /\ r.numerator * scale = value * r.denominator
                /\ r.denominator =
                        10 ^ SignificantFractionDigits(spot_price)
                /\ r.numerator # 0
                /\ r.denominator # 0
                /\ ~is_zero(Price_new("base", r.numerator,
                                      "quote", r.denominator))

C20_Witness ==
    /\ spot_price = <<"0", ".", "5", "0">>
    /\ ratio = Some([kind |-> "ok", numerator |-> 5, denominator |-> 10])

TypeOK ==
    /\ pc \in {"querying", "broadcasting", "committed", "sleeping", "exit"}
    /\ sequence \in Nat
    /\ max_alarms \in 1..MaxBatch
    /\ queue \in 0..MaxQueue
    /\ pass_state \in {"running", "done", "fatal"}
====
